---- MODULE Spec2Model ----
(***************************************************************************)
(* CyberMolt: the reply generator (generate_reply with its retry loop and  *)
(* the response parsing of _call_api, post_reply) and the tweet poster     *)
(* (post_tweet).                                                           *)
(*                                                                         *)
(* Python str values that the code strips or measures are sequences of     *)
(* one-character strings.  Messages built with f-strings are sequences of  *)
(* text fragments.  JSON values are records [k, v] tagged with their       *)
(* Python type after response.json().                                      *)
(***************************************************************************)
EXTENDS Integers, Sequences, FiniteSets, TLC

VARIABLES
    \* generate_reply
    tweet_content, api_key, author, max_retries,   \* the arguments
    pc,            \* position in generate_reply
    attempt,       \* loop variable of the for loop
    prompt,        \* build_prompt's result
    last_error,    \* last_error
    events,        \* what the call did to the outside: HTTP calls and sleeps
    result,        \* the returned GenerateResult
    exchange,      \* how the last HTTP exchange went
    \* post_reply / post_tweet
    agent,         \* which posting function is running
    environ,       \* os.environ, the four credential variables
    ppc,           \* position in the posting function
    client,        \* TRUE once tweepy.Client(...) was constructed
    created,       \* number of client.create_tweet calls
    post_ret       \* what the posting function gave back to its caller

gvars == <<tweet_content, api_key, author, max_retries, pc, attempt, prompt,
           last_error, events, result, exchange>>
pvars == <<agent, environ, ppc, client, created, post_ret>>
vars == <<gvars, pvars>>

----------------------------------------------------------------------------
(* Program constants *)

REPLY_MIN_LEN == 30
REPLY_MAX_LEN == 180
MAX_RETRIES == 3
RETRY_BACKOFF_BASE == 2

(* Bounds of the model *)

\* longest run of whitespace put around a text
MaxPad == 1
\* largest max_retries argument tried besides the default
MaxRetriesArg == 3

----------------------------------------------------------------------------
(* Python str *)

Rep(c, n) == [i \in 1..n |-> c]

IsSpace(c) == c = " "

RECURSIVE lstripWs(_)
lstripWs(s) ==
    IF s # <<>> /\ IsSpace(Head(s)) THEN lstripWs(Tail(s)) ELSE s

RECURSIVE rstripWs(_)
rstripWs(s) ==
    IF s # <<>> /\ IsSpace(s[Len(s)]) THEN rstripWs(SubSeq(s, 1, Len(s) - 1)) ELSE s

\* str.strip()
strip(s) == rstripWs(lstripWs(s))

\* str.lstrip("@")
RECURSIVE lstripAt(_)
lstripAt(s) ==
    IF s # <<>> /\ Head(s) = "@" THEN lstripAt(Tail(s)) ELSE s

\* needle in haystack, both str
IsSubstring(needle, hay) ==
    \E i \in 0..(Len(hay) - Len(needle)) :
        SubSeq(hay, i + 1, i + Len(needle)) = needle

\* str(n) for a natural number
Digit(d) == CASE d = 0 -> "0" [] d = 1 -> "1" [] d = 2 -> "2" [] d = 3 -> "3"
              [] d = 4 -> "4" [] d = 5 -> "5" [] d = 6 -> "6" [] d = 7 -> "7"
              [] d = 8 -> "8" [] d = 9 -> "9"

RECURSIVE DecStr(_)
DecStr(n) == IF n < 10 THEN <<Digit(n)>> ELSE DecStr(n \div 10) \o <<Digit(n % 10)>>

----------------------------------------------------------------------------
(* JSON values as response.json() returns them *)

JNull == [k |-> "null", v |-> 0]
JNum(n) == [k |-> "num", v |-> n]
JBool(b) == [k |-> "bool", v |-> b]
JStr(s) == [k |-> "str", v |-> s]
JList(l) == [k |-> "list", v |-> l]
JObj(f) == [k |-> "obj", v |-> f]
JEmptyObj == JObj([x \in {} |-> JNull])

\* an exception travelling through an expression
Raised(exc) == [k |-> "raise", v |-> exc]

\* bool(x)
Truthy(x) ==
    CASE x.k = "null" -> FALSE
      [] x.k = "num" -> x.v # 0
      [] x.k = "bool" -> x.v
      [] x.k = "str" -> Len(x.v) > 0
      [] x.k = "list" -> Len(x.v) > 0
      [] x.k = "obj" -> DOMAIN x.v # {}

\* the characters of the keys the parser looks for
KeyChars(key) ==
    CASE key = "choices" -> <<"c", "h", "o", "i", "c", "e", "s">>
      [] key = "text" -> <<"t", "e", "x", "t">>
      [] key = "message" -> <<"m", "e", "s", "s", "a", "g", "e">>
      [] key = "content" -> <<"c", "o", "n", "t", "e", "n", "t">>
      [] key = "output" -> <<"o", "u", "t", "p", "u", "t">>

\* x.get(key, default): only dict has .get
DictGet(x, key, default) ==
    CASE x.k = "raise" -> x
      [] x.k = "obj" -> IF key \in DOMAIN x.v THEN x.v[key] ELSE default
      [] OTHER -> Raised("AttributeError")

\* key in x: "yes"/"no", or "TypeError" when x has no membership test
KeyIn(key, x) ==
    CASE x.k = "obj" -> IF key \in DOMAIN x.v THEN "yes" ELSE "no"
      [] x.k = "list" ->
            IF \E i \in 1..Len(x.v) : x.v[i].k = "str" /\ x.v[i].v = KeyChars(key)
            THEN "yes" ELSE "no"
      [] x.k = "str" -> IF IsSubstring(KeyChars(key), x.v) THEN "yes" ELSE "no"
      [] OTHER -> "TypeError"

\* x[key] with a str key
Subscript(x, key) ==
    CASE x.k = "raise" -> x
      [] x.k = "obj" -> IF key \in DOMAIN x.v THEN x.v[key] ELSE Raised("KeyError")
      [] OTHER -> Raised("TypeError")

\* x[0]
First(x) ==
    CASE x.k = "raise" -> x
      [] x.k = "list" -> IF Len(x.v) > 0 THEN x.v[1] ELSE Raised("IndexError")
      [] x.k = "str" -> IF Len(x.v) > 0 THEN JStr(<<x.v[1]>>) ELSE Raised("IndexError")
      [] x.k = "obj" -> Raised("KeyError")
      [] OTHER -> Raised("TypeError")

\* x.strip(): only str has .strip
StripOf(x) ==
    CASE x.k = "raise" -> x
      [] x.k = "str" -> JStr(strip(x.v))
      [] OTHER -> Raised("AttributeError")

----------------------------------------------------------------------------
(* _call_api: what it makes of the body of a 2xx response *)

\* neither returned nor raised: control goes on to the next statement
Fall == [k |-> "fall", v |-> 0]

\* the OpenAI-compatible format
ParseModern(res) ==
    LET choices == DictGet(res, "choices", JNull) IN
    IF choices.k = "raise" THEN choices
    ELSE IF Truthy(choices) /\ choices.k = "list" /\ Len(choices.v) > 0
    THEN LET message == DictGet(First(choices), "message", JEmptyObj)
             content == DictGet(message, "content", JStr(<<>>))
         IN  IF content.k = "raise" THEN content
             ELSE IF Truthy(content) THEN StripOf(content)
             ELSE Fall
    ELSE Fall

\* the DashScope native format, then the ValueError
ParseLegacy(res) ==
    LET output == DictGet(res, "output", JEmptyObj)
        hasChoices == KeyIn("choices", output)
        hasText == KeyIn("text", output)
        oc == IF hasChoices = "yes" THEN Subscript(output, "choices") ELSE JNull
    IN  IF hasChoices = "TypeError" THEN Raised("TypeError")
        ELSE IF oc.k = "raise" THEN oc
        ELSE IF hasChoices = "yes" /\ Truthy(oc)
        THEN StripOf(Subscript(Subscript(First(oc), "message"), "content"))
        ELSE IF hasText = "yes" THEN StripOf(Subscript(output, "text"))
        ELSE Raised("ValueError")

\* result = response.json() and everything after it
ParseResponse(res) ==
    LET modern == ParseModern(res) IN
    IF modern.k = "fall" THEN ParseLegacy(res) ELSE modern

\* One HTTP exchange and its parsing. The outcome o of the exchange is
\*   "RequestException": requests.post or raise_for_status raised it
\*   "ValueError": response.json() raised it on a body that is not JSON (a
\*       requests release whose JSONDecodeError is no RequestException)
\*   "Exception": anything else raised under requests.post
\*   "json": a 2xx response whose body decodes to o.body
\* The value is the returned text (a JStr) or the raised exception.
call_api(o) ==
    CASE o.k = "RequestException" -> Raised("RequestException")
      [] o.k = "ValueError" -> Raised("ValueError")
      [] o.k = "Exception" -> Raised("Exception")
      [] o.k = "json" -> ParseResponse(o.body)

----------------------------------------------------------------------------
(* generate_reply *)

\* the dataclass GenerateResult
GenerateResult(success, reply, error, length_warning) ==
    [success |-> success, reply |-> reply, error |-> error,
     length_warning |-> length_warning]

NoResult == [success |-> FALSE, reply |-> <<>>, error |-> <<"(not returned)">>,
             length_warning |-> <<>>]

\* guards that test for the empty author only, not for a whitespace-only one
InputErrorNoStrip(t, key, a) ==
    IF t = <<>> \/ strip(t) = <<>> THEN <<"Tweet content cannot be empty">>
    ELSE IF key = <<>> THEN <<"API Key cannot be empty">>
    ELSE IF a = <<>> THEN <<"Author username cannot be empty">>
    ELSE <<>>

\* the three guards at the top: the error they return, <<>> when all pass
InputError(t, key, a) ==
    IF t = <<>> \/ strip(t) = <<>> THEN <<"Tweet content cannot be empty">>
    ELSE IF key = <<>> THEN <<"API Key cannot be empty">>
    ELSE IF a = <<>> \/ strip(a) = <<>> THEN <<"Author username cannot be empty">>
    ELSE <<>>

\* author.strip().lstrip("@")
NormalizeAuthor(a) == lstripAt(strip(a))

\* REPLY_PROMPT_TEMPLATE.format(...): the template with its four fields filled
build_prompt(t, a) ==
    [tweet_content |-> t, author |-> a,
     min_len |-> REPLY_MIN_LEN, max_len |-> REPLY_MAX_LEN]

NoPrompt == [tweet_content |-> <<>>, author |-> <<>>, min_len |-> 0, max_len |-> 0]

\* a length validation that also warns at the minimum: reply_len <= REPLY_MIN_LEN
LengthWarningInclusive(reply_text) ==
    LET reply_len == Len(reply_text) IN
    IF reply_len <= REPLY_MIN_LEN
    THEN <<"Reply length (">> \o DecStr(reply_len)
         \o <<") is below the recommended minimum (">> \o DecStr(REPLY_MIN_LEN) \o <<")">>
    ELSE IF reply_len > REPLY_MAX_LEN
    THEN <<"Reply length (">> \o DecStr(reply_len)
         \o <<") exceeds the recommended maximum (">> \o DecStr(REPLY_MAX_LEN) \o <<")">>
    ELSE <<>>

\* the length validation
LengthWarning(reply_text) ==
    LET reply_len == Len(reply_text) IN
    IF reply_len < REPLY_MIN_LEN
    THEN <<"Reply length (">> \o DecStr(reply_len)
         \o <<") is below the recommended minimum (">> \o DecStr(REPLY_MIN_LEN) \o <<")">>
    ELSE IF reply_len > REPLY_MAX_LEN
    THEN <<"Reply length (">> \o DecStr(reply_len)
         \o <<") exceeds the recommended maximum (">> \o DecStr(REPLY_MAX_LEN) \o <<")">>
    ELSE <<>>

\* the three except clauses: last_error for a raised exception
ErrorText(exc) ==
    CASE exc = "RequestException" -> <<"API request failed: ", exc>>
      [] exc = "ValueError" -> <<"Response parsing failed: ", exc>>
      [] OTHER -> <<"Unknown error: ", exc>>

\* a loop that runs one value too far: range(1, max_retries + 2)
InRangeOneMore(a, n) == 1 <= a /\ a <= n + 1

\* for attempt in range(1, max_retries + 1): is a one of its values
InRange(a, n) == 1 <= a /\ a <= n

\* a sleep after the last attempt too: if attempt <= max_retries
SleepsAfterLast(a, n) == a <= n

\* if attempt < max_retries
SleepsAfter(a, n) == a < n

\* the exponent taken from the attempt that follows the sleep
WaitNextAttempt(a) == RETRY_BACKOFF_BASE ^ (a + 1)

\* wait = RETRY_BACKOFF_BASE ** attempt
Wait(a) == RETRY_BACKOFF_BASE ^ a

CallEvent(a) == [e |-> "call", n |-> a]
SleepEvent(secs) == [e |-> "sleep", n |-> secs]

(* The inputs tried *)

Pad(core) == { Rep(" ", l) \o core \o Rep(" ", t) : l \in 0..MaxPad, t \in 0..MaxPad }

Tweets == { <<>>, <<" ">>, <<"a">>, <<" ", "a", " ">> }
Keys == { <<>>, <<"k">> }
Authors == { <<>>, <<" ">>, <<"a">>, <<"@", "a">>, <<" ", "@", "a", " ">>,
             <<"@">>, <<" ", "@", "@", " ">>, <<"@", " ", "a">> }
RetryArgs == (0..MaxRetriesArg) \cup {MAX_RETRIES}

\* content strings: lengths around both limits, bare and padded
CoreLens == {0, 1, REPLY_MIN_LEN - 1, REPLY_MIN_LEN, REPLY_MAX_LEN, REPLY_MAX_LEN + 1}
Contents == UNION { Pad(Rep("a", n)) : n \in CoreLens }

\* {choices: [{message: {content: c}}]}
ChoicesOf(c) == JList(<<JObj([message |-> JObj([content |-> c])])>>)
Modern(c) == JObj([choices |-> ChoicesOf(c)])
LegacyChoices(c) == JObj([output |-> JObj([choices |-> ChoicesOf(c)])])
LegacyText(c) == JObj([output |-> JObj([text |-> c])])

\* bodies that carry no text in either shape
Malformed ==
    { JEmptyObj, JNull, JNum(5), JList(<<>>), JStr(<<"o", "k">>),
      JObj([choices |-> JList(<<>>)]),
      JObj([choices |-> JNull]),
      JObj([choices |-> JList(<<JNull>>)]),
      JObj([choices |-> JList(<<JEmptyObj>>)]),
      JObj([choices |-> JList(<<JObj([message |-> JNull])>>)]),
      Modern(JNull), Modern(JNum(5)),
      JObj([output |-> JNull]),
      JObj([output |-> JNum(5)]),
      JObj([output |-> JList(<<>>)]),
      JObj([output |-> JStr(KeyChars("text"))]),
      JObj([output |-> JEmptyObj]),
      JObj([output |-> JObj([choices |-> JList(<<>>)])]),
      JObj([output |-> JObj([choices |-> JList(<<JEmptyObj>>)])]),
      JObj([output |-> JObj([choices |-> JList(<<JObj([message |-> JEmptyObj])>>)])]),
      LegacyChoices(JNull), LegacyText(JNull) }

Bodies ==
    { Modern(JStr(c)) : c \in Contents }
    \cup { LegacyChoices(JStr(c)) : c \in Contents }
    \cup { LegacyText(JStr(c)) : c \in Contents }
    \cup { JObj([choices |-> ChoicesOf(JStr(<<>>)), output |-> JObj([text |-> JStr(c)])])
           : c \in Contents }
    \cup Malformed

Exchanges ==
    { [k |-> "RequestException", body |-> JNull], [k |-> "ValueError", body |-> JNull],
      [k |-> "Exception", body |-> JNull] }
    \cup { [k |-> "json", body |-> b] : b \in Bodies }

NoExchange == [k |-> "none", body |-> JNull]

InitGenerate ==
    /\ tweet_content \in Tweets
    /\ api_key \in Keys
    /\ author \in Authors
    /\ max_retries \in RetryArgs
    /\ pc = "start"
    /\ attempt = 0
    /\ prompt = NoPrompt
    /\ last_error = <<>>
    /\ events = <<>>
    /\ result = NoResult
    /\ exchange = NoExchange

\* lines 208-219 and the entry of the for loop
Validate ==
    /\ pc = "start"
    /\ LET err == InputError(tweet_content, api_key, author) IN
       IF err # <<>>
       THEN /\ result' = GenerateResult(FALSE, <<>>, err, <<>>)
            /\ pc' = "done"
            /\ UNCHANGED <<prompt, attempt>>
       ELSE /\ prompt' = build_prompt(strip(tweet_content), NormalizeAuthor(author))
            /\ attempt' = 1
            /\ pc' = IF InRange(1, max_retries) THEN "attempt" ELSE "exhausted"
            /\ UNCHANGED result
    /\ UNCHANGED <<tweet_content, api_key, author, max_retries, last_error, events,
                   exchange, pvars>>

\* the try statement of one iteration: _call_api, then the length validation
\* and the return, or one of the except clauses
Attempt ==
    /\ pc = "attempt"
    /\ \E o \in Exchanges :
        LET r == call_api(o) IN
        /\ exchange' = o
        /\ events' = Append(events, CallEvent(attempt))
        /\ IF r.k = "str"
           THEN /\ result' = GenerateResult(TRUE, r.v, <<>>, LengthWarning(r.v))
                /\ pc' = "done"
                /\ UNCHANGED last_error
           ELSE /\ last_error' = ErrorText(r.v)
                /\ pc' = "failed"
                /\ UNCHANGED result
    /\ UNCHANGED <<tweet_content, api_key, author, max_retries, attempt, prompt, pvars>>

\* the end of an iteration whose attempt failed: the sleep when one is due,
\* then the loop takes its next value or ends
Backoff ==
    /\ pc = "failed"
    /\ events' = IF SleepsAfter(attempt, max_retries)
                 THEN Append(events, SleepEvent(Wait(attempt)))
                 ELSE events
    /\ IF InRange(attempt + 1, max_retries)
       THEN /\ attempt' = attempt + 1
            /\ pc' = "attempt"
       ELSE /\ pc' = "exhausted"
            /\ UNCHANGED attempt
    /\ UNCHANGED <<tweet_content, api_key, author, max_retries, prompt, last_error,
                   result, exchange, pvars>>

\* the return after the loop
ReturnFailure ==
    /\ pc = "exhausted"
    /\ result' = GenerateResult(FALSE, <<>>,
                    <<"Failed after ">> \o DecStr(max_retries)
                    \o <<" retries. Last error: ">> \o last_error, <<>>)
    /\ pc' = "done"
    /\ UNCHANGED <<tweet_content, api_key, author, max_retries, attempt, prompt,
                   last_error, events, exchange, pvars>>

----------------------------------------------------------------------------
(* post_reply (reply generator) and post_tweet (tweet poster) *)

CredNames == <<"TWITTER_CONSUMER_KEY", "TWITTER_CONSUMER_SECRET",
               "TWITTER_ACCESS_TOKEN", "TWITTER_ACCESS_TOKEN_SECRET">>

\* os.environ.get(name): None when unset, else the str
EnvValues == { JNull, JStr(<<>>), JStr(<<"s">>), JStr(<<"t">>) }

\* a check that leaves the last credential out
AllButLastCredential(env) == \A i \in 1..(Len(CredNames) - 1) : Truthy(env[CredNames[i]])

\* all([consumer_key, consumer_secret, access_token, access_token_secret])
AllCredentials(env) == \A i \in 1..Len(CredNames) : Truthy(env[CredNames[i]])

\* the string returned when the credentials check fails
MissingMessage(ag) ==
    IF ag = "post_reply"
    THEN <<"Failed to post reply: ", "missing Twitter environment variables (",
           "TWITTER_CONSUMER_KEY", ", ", "TWITTER_CONSUMER_SECRET", ", ",
           "TWITTER_ACCESS_TOKEN", ", ", "TWITTER_ACCESS_TOKEN_SECRET", ")">>
    ELSE <<"Failed to post tweet: ", "missing environment variables (",
           "TWITTER_CONSUMER_KEY", ", etc.)">>

\* the f-strings of the try block and of its except clause
SuccessMessage(ag, id) ==
    IF ag = "post_reply"
    THEN <<"Successfully replied! Tweet link: ", "https://x.com/user/status/", id>>
    ELSE <<"Successfully posted! Tweet link: ", "https://x.com/user/status/", id>>

FailureMessage(ag, exc) ==
    IF ag = "post_reply" THEN <<"Failed to post reply: ", exc>>
    ELSE <<"Failed to post tweet: ", exc>>

\* is the statement that raises inside the try block? tweepy.Client(...) is
\* called before the try statement, client.create_tweet(...) inside it
InTry(stmt) == stmt = "create_tweet"

Returned(msg) == [k |-> "returned", v |-> msg]
Propagated(exc) == [k |-> "raised", v |-> <<exc>>]
NotBack == [k |-> "running", v |-> <<>>]

\* where an exception raised by stmt ends up
OnException(ag, stmt, exc) ==
    IF InTry(stmt) THEN Returned(FailureMessage(ag, exc)) ELSE Propagated(exc)

Agents == {"post_reply", "post_tweet"}

\* what tweepy.Client(...) can do: construct, or raise
ClientOutcomes == { "ok", "TweepyException" }

\* what client.create_tweet(...) and response.data['id'] can do: a response
\* with an id, a response whose data is None or has no 'id', or an
\* exception of the library (rejected, unauthorized, network)
CreateOutcomes ==
    { [k |-> "id", v |-> "1"], [k |-> "id", v |-> "20"],
      [k |-> "raise", v |-> "TypeError"], [k |-> "raise", v |-> "KeyError"],
      [k |-> "raise", v |-> "Forbidden"], [k |-> "raise", v |-> "Unauthorized"] }

PostIdle ==
    /\ agent = "none"
    /\ environ = [n \in {CredNames[i] : i \in 1..Len(CredNames)} |-> JNull]
    /\ ppc = "idle"
    /\ client = FALSE
    /\ created = 0
    /\ post_ret = NotBack

GenerateIdle ==
    /\ tweet_content = <<>>
    /\ api_key = <<>>
    /\ author = <<>>
    /\ max_retries = 0
    /\ pc = "idle"
    /\ attempt = 0
    /\ prompt = NoPrompt
    /\ last_error = <<>>
    /\ events = <<>>
    /\ result = NoResult
    /\ exchange = NoExchange

InitPosting ==
    /\ agent \in Agents
    /\ environ \in [{CredNames[i] : i \in 1..Len(CredNames)} -> EnvValues]
    /\ ppc = "start"
    /\ client = FALSE
    /\ created = 0
    /\ post_ret = NotBack

\* reading the four variables and the check on them
CheckCredentials ==
    /\ ppc = "start"
    /\ IF ~AllCredentials(environ)
       THEN /\ post_ret' = Returned(MissingMessage(agent))
            /\ ppc' = "done"
       ELSE /\ ppc' = "construct"
            /\ UNCHANGED post_ret
    /\ UNCHANGED <<agent, environ, client, created, gvars>>

\* client = tweepy.Client(...)
ConstructClient ==
    /\ ppc = "construct"
    /\ \E o \in ClientOutcomes :
        IF o = "ok"
        THEN /\ client' = TRUE
             /\ ppc' = "create"
             /\ UNCHANGED post_ret
        ELSE /\ post_ret' = OnException(agent, "Client", o)
             /\ ppc' = "done"
             /\ UNCHANGED client
    /\ UNCHANGED <<agent, environ, created, gvars>>

\* the try block: client.create_tweet(...), the link built from
\* response.data['id'], and the except clause
CreateTweet ==
    /\ ppc = "create"
    /\ created' = created + 1
    /\ \E o \in CreateOutcomes :
        post_ret' = IF o.k = "id" THEN Returned(SuccessMessage(agent, o.v))
                    ELSE OnException(agent, "create_tweet", o.v)
    /\ ppc' = "done"
    /\ UNCHANGED <<agent, environ, client, gvars>>

----------------------------------------------------------------------------
(* Specifications *)

Init == InitGenerate /\ PostIdle

Next == Validate \/ Attempt \/ Backoff \/ ReturnFailure

Spec == Init /\ [][Next]_vars

InitPost == InitPosting /\ GenerateIdle

NextPost == CheckCredentials \/ ConstructClient \/ CreateTweet

SpecPost == InitPost /\ [][NextPost]_vars

----------------------------------------------------------------------------
(* Properties of generate_reply *)

\* the HTTP calls issued so far, in order
CallIndices == { i \in 1..Len(events) : events[i].e = "call" }
Calls == Cardinality(CallIndices)

\* a str that is empty or whitespace only
Blank(s) == \A i \in 1..Len(s) : s[i] = " "

\* the call got past the three guards
Admitted == ~Blank(tweet_content) /\ api_key # <<>> /\ ~Blank(author)

GenReturned == pc = "done"

\* C1: with max_retries = N >= 1, whatever the attempts' outcomes are, the
\* number of HTTP calls never exceeds N; a call that returns after every
\* attempt failed has issued exactly N, and a call that returns a success
\* from attempt k has issued exactly k (the calls are attempts 1..k, none
\* after the success).
C1_CallsBounded ==
    max_retries >= 1 =>
        /\ Calls <= max_retries
        /\ \A i \in CallIndices : events[i].n = Cardinality({j \in CallIndices : j <= i})
        /\ (GenReturned /\ Admitted /\ ~result.success) => Calls = max_retries
        /\ (GenReturned /\ result.success) =>
                /\ Calls = attempt
                /\ events[Len(events)] = CallEvent(attempt)

\* C1 witness: a success at the second of three attempts
C1_Witness ==
    /\ GenReturned /\ result.success
    /\ max_retries = 3 /\ attempt = 2 /\ Calls = 2

\* C2 as stated: the sleep right before attempt k (k >= 2) lasts
\* RETRY_BACKOFF_BASE^k seconds.
C2_SleepBeforeAttemptIsBaseToK ==
    \A i \in CallIndices :
        events[i].n >= 2 =>
            /\ i > 1
            /\ events[i - 1] = SleepEvent(RETRY_BACKOFF_BASE ^ events[i].n)

\* C2 amended: every attempt k >= 2 comes right after a sleep, and that sleep
\* lasts RETRY_BACKOFF_BASE^(k-1) seconds (the exponent is the number of the
\* attempt that failed, not of the attempt that follows).
C2_SleepBeforeAttemptIsBaseToKMinus1 ==
    \A i \in CallIndices :
        events[i].n >= 2 =>
            /\ i > 1
            /\ events[i - 1] = SleepEvent(RETRY_BACKOFF_BASE ^ (events[i].n - 1))

\* C2 witness: the third attempt was made, after a sleep of 4 seconds
C2_Witness ==
    \E i \in CallIndices : events[i].n = 3 /\ i > 1 /\ events[i - 1] = SleepEvent(4)

\* C3: every sleep comes right after a failed attempt a < max_retries and
\* lasts RETRY_BACKOFF_BASE^a seconds; nothing is slept after the last failed
\* attempt or after a success (a returned call's last event is an HTTP call);
\* and with max_retries = 3 a call whose three attempts fail has done exactly
\* call, sleep 2, call, sleep 4, call and returns success = false.
C3_SleepOnlyBetweenAttempts ==
    /\ \A i \in 1..Len(events) :
          events[i].e = "sleep" =>
              /\ i > 1
              /\ events[i - 1].e = "call"
              /\ events[i - 1].n < max_retries
              /\ events[i].n = RETRY_BACKOFF_BASE ^ events[i - 1].n
    /\ (pc \in {"done", "exhausted"} /\ events # <<>>) => events[Len(events)].e = "call"
    /\ (GenReturned /\ result.success) => Len(events) = 2 * attempt - 1
    /\ (GenReturned /\ Admitted /\ ~result.success /\ max_retries = 3) =>
          events = <<CallEvent(1), SleepEvent(2), CallEvent(2), SleepEvent(4), CallEvent(3)>>

\* C3 witness: three request failures in a row with max_retries = 3
C3_Witness ==
    /\ GenReturned /\ ~result.success /\ max_retries = 3
    /\ Len(events) = 5
    /\ result.error[Len(result.error) - 1] = "API request failed: "

\* the value at choices[0].message.content of a dict, JNull when the path
\* does not lead through a dict, a non-empty list and two dicts
ContentUnder(x) ==
    IF x.k = "obj" /\ "choices" \in DOMAIN x.v
       /\ x.v["choices"].k = "list" /\ Len(x.v["choices"].v) > 0
       /\ x.v["choices"].v[1].k = "obj" /\ "message" \in DOMAIN x.v["choices"].v[1].v
       /\ x.v["choices"].v[1].v["message"].k = "obj"
       /\ "content" \in DOMAIN x.v["choices"].v[1].v["message"].v
    THEN x.v["choices"].v[1].v["message"].v["content"]
    ELSE JNull

\* the value at output of a dict, JNull when there is none
OutputOf(x) == IF x.k = "obj" /\ "output" \in DOMAIN x.v THEN x.v["output"] ELSE JNull

\* the value at output.text
TextUnder(x) ==
    IF OutputOf(x).k = "obj" /\ "text" \in DOMAIN OutputOf(x).v
    THEN OutputOf(x).v["text"] ELSE JNull

\* the body carries a content string in the modern shape or in a legacy one
CarriesContent(b) ==
    \/ ContentUnder(b).k = "str"
    \/ ContentUnder(OutputOf(b)).k = "str"
    \/ TextUnder(b).k = "str"

\* the last HTTP exchange was a 2xx response with a decoded body
GotBody == exchange.k = "json"

\* C4: a 2xx response whose body carries no content in either shape is a
\* parse failure ("Response parsing failed"), never another classification.
C4_NoContentIsParseFailure ==
    (GotBody /\ ~CarriesContent(exchange.body)) =>
        /\ ~result.success
        /\ last_error # <<>>
        /\ last_error[1] = "Response parsing failed: "

\* C5: a result with success = true carries a non-empty reply.
C5_SuccessHasReply ==
    (GenReturned /\ result.success) => result.reply # <<>>

\* C6: a call with a blank tweet text, an empty API key or a blank author,
\* whatever the other two arguments are, returns success = false with a
\* non-empty error, and issues no HTTP call and no sleep at any time.
C6_EmptyInputShortCircuits ==
    (Blank(tweet_content) \/ api_key = <<>> \/ Blank(author)) =>
        /\ events = <<>>
        /\ pc \in {"start", "done"}
        /\ GenReturned => (~result.success /\ result.error # <<>> /\ result.reply = <<>>)

\* C6 witness: a returned call whose only fault is a whitespace-only author
C6_Witness ==
    /\ GenReturned
    /\ ~Blank(tweet_content) /\ api_key # <<>>
    /\ author # <<>> /\ Blank(author)

\* C7: the length check never fails a reply: a text extracted by an attempt is
\* returned with success = true by that same attempt (the last event is that
\* attempt's call), and length_warning is non-empty exactly when the reply is
\* shorter than REPLY_MIN_LEN or longer than REPLY_MAX_LEN.
C7_LengthIsAdvisory ==
    /\ (GotBody /\ call_api(exchange).k = "str") =>
          /\ GenReturned /\ result.success
          /\ result.reply = call_api(exchange).v
          /\ result.error = <<>>
          /\ events[Len(events)] = CallEvent(attempt)
    /\ (GenReturned /\ result.success) =>
          (result.length_warning # <<>>
             <=> (Len(result.reply) < REPLY_MIN_LEN \/ Len(result.reply) > REPLY_MAX_LEN))

\* C7 witness: a reply of exactly REPLY_MIN_LEN characters returned without a
\* warning
C7_Witness ==
    /\ GenReturned /\ result.success
    /\ Len(result.reply) = REPLY_MIN_LEN
    /\ result.length_warning = <<>>

\* the three shapes that deliver the content string c
ShapesOf(c) == { Modern(JStr(c)), LegacyChoices(JStr(c)), LegacyText(JStr(c)) }

\* C9: whichever of the three shapes delivers a content string c, the
\* attempt ends the same way: the state reached from a legacy response is
\* the one the modern response with the same c leads to (same success,
\* reply, error and length_warning, no further attempt or sleep).
C9_ShapeIsTransparent ==
    \A c \in Contents :
        (GotBody /\ exchange.body \in ShapesOf(c)) =>
            LET m == call_api([k |-> "json", body |-> Modern(JStr(c))]) IN
            IF m.k = "str"
            THEN /\ GenReturned
                 /\ result = GenerateResult(TRUE, m.v, <<>>, LengthWarning(m.v))
            ELSE /\ ~result.success
                 /\ last_error = ErrorText(m.v)

----------------------------------------------------------------------------
(* Properties of post_reply and post_tweet *)

\* a credential variable is unset or empty
CredentialMissing == \E i \in 1..Len(CredNames) :
                        environ[CredNames[i]] = JNull \/ environ[CredNames[i]] = JStr(<<>>)

\* the message names the variable
Mentions(msg, name) == \E i \in 1..Len(msg) : msg[i] = name

PostReturned == ppc = "done"

\* with a credential missing: a returned failure string, no client, no post
RefusedWithoutCall ==
    /\ ~client
    /\ created = 0
    /\ ppc \in {"start", "done"}
    /\ PostReturned =>
          /\ post_ret.k = "returned"
          /\ post_ret.v[1] = (IF agent = "post_reply" THEN "Failed to post reply: "
                              ELSE "Failed to post tweet: ")

\* C8 as stated: in both agents, with a credential missing or empty the call
\* returns a failure string that contains all four variable names, without
\* constructing the client or calling create_tweet.
C8_BothNameAllFour ==
    CredentialMissing =>
        /\ RefusedWithoutCall
        /\ PostReturned => \A i \in 1..Len(CredNames) : Mentions(post_ret.v, CredNames[i])

\* C8 amended: with a credential missing or empty both agents return a
\* failure string without constructing the client or calling create_tweet;
\* post_reply's string contains all four variable names, post_tweet's
\* contains TWITTER_CONSUMER_KEY alone (followed by "etc.").
C8_ReplyNamesFourTweetNamesOne ==
    CredentialMissing =>
        /\ RefusedWithoutCall
        /\ PostReturned =>
              \A i \in 1..Len(CredNames) :
                  Mentions(post_ret.v, CredNames[i]) <=> (agent = "post_reply" \/ i = 1)

\* C8 witness: post_tweet returned with only the last credential empty
C8_Witness ==
    /\ PostReturned /\ agent = "post_tweet"
    /\ environ["TWITTER_ACCESS_TOKEN_SECRET"] = JStr(<<>>)
    /\ \A i \in 1..3 : Truthy(environ[CredNames[i]])

\* C10: whatever happens on the posting path, the function gives a string
\* back (a "Failed to post ..." message or a message with the permalink
\* https://x.com/user/status/<id>); no exception reaches the caller.
C10_PostingNeverRaises ==
    PostReturned =>
        /\ post_ret.k = "returned"
        /\ \/ post_ret.v[1] \in {"Failed to post reply: ", "Failed to post tweet: "}
           \/ /\ Len(post_ret.v) = 3
              /\ post_ret.v[2] = "https://x.com/user/status/"

----------------------------------------------------------------------------
(* The author handle in the prompt *)

\* C11: whenever generate_reply has issued an HTTP call, the author handle
\* substituted into the prompt is non-empty and does not begin with "@" (a
\* call whose author normalizes to nothing never gets as far as an HTTP
\* call).
C11_PromptAuthorNonEmpty ==
    Calls > 0 => (prompt.author # <<>> /\ Head(prompt.author) # "@")

====
